---- MODULE Spec2Model ----
(***************************************************************************)
(* Veo video generator: the App component's state (part_000) driven by     *)
(* user events and by the asynchronous completions of the credential       *)
(* check, the credential selector and the generation pipeline              *)
(* generateVideoFromImage (part_001).                                      *)
(*                                                                         *)
(* Every handler and every continuation after an await is one action; the  *)
(* download (fetch, then the reading of the response body) is one action,  *)
(* since the pipeline reads and writes nothing between those two awaits.   *)
(* The pending calls of generateVideoFromImage are a bag of positions: a   *)
(* call has no identity beyond the await it is suspended at.               *)
(* Strings that the code searches or concatenates are sequences of tokens, *)
(* so that includes() and template literals are computed, not assumed.     *)
(* A nullable value is Null (<<>>) or Some(v) (<<v>>).                      *)
(* Left out, as nothing modelled here reads them: imagePreview (written by *)
(* handleImageChange's FileReader and by resetState, read by the <img>     *)
(* only) and aspectRatio (written by its two buttons, passed unchanged     *)
(* into the generateVideos request, like the prompt and the image).        *)
(***************************************************************************)
EXTENDS Integers, Sequences, FiniteSets, Bags, TLC

VARIABLES
    imageFile,        \* useState<File | null>            part_000:39
    script,           \* useState<string>                 part_000:41
    generationState,  \* useState<GenerationState>        part_000:43
    videoUrl,         \* useState<string | null>          part_000:44
    error,            \* useState<string | null>          part_000:45
    loadingMessage,   \* useState<string>                 part_000:46
    apiKeySelected,   \* useState<boolean | null>         part_000:47
    checkPending,     \* hasSelectedApiKey() of the mount effect not yet settled
    selectCalls,      \* openSelectKey() promises not yet settled
    pipelines,        \* the calls of generateVideoFromImage that have not settled
    lastEvent         \* the handler or continuation that ran last, and its input

vars == <<imageFile, script, generationState, videoUrl, error, loadingMessage,
          apiKeySelected, checkPending, selectCalls, pipelines, lastEvent>>

ui == <<imageFile, script, generationState, videoUrl, error, loadingMessage,
        apiKeySelected>>

----------------------------------------------------------------------------
(* Bounds of the model *)

\* calls of generateVideoFromImage that may be pending together
MaxInFlight == 2
\* openSelectKey() calls that may be pending together
MaxSelectCalls == 2
\* status queries one run may issue before the remote operation is done
MaxPolls == 1

----------------------------------------------------------------------------
(* Values *)

Null == <<>>
Some(v) == <<v>>

GenerationState == {"idle", "loading", "polling", "success", "error", "selecting_key"}

Files == {"photo.jpg"}
Scripts == {"", "A cinematic shot"}

\* message texts, as token sequences
EmptyMessage == <<>>
NotFoundText == "Requested entity was not found"
InvalidKeyText == "API key not valid"
API_KEY_ERROR == <<"API_KEY_ERROR">>
EncodingFailed == <<"Failed to convert image to base64.">>
MissingLink == <<"Could not retrieve video download link.">>
KeyInvalidMessage == <<"Your API Key is invalid or missing permissions. Please select a valid key.">>
UnknownMessage == <<"An unknown error occurred.">>
GenerationFailed(m) == <<"Video generation failed: ">> \o m
DownloadFailed(statusText) == <<"Failed to download video: ", statusText>>

\* String.prototype.includes at token granularity
Includes(text, needle) == \E i \in 1..Len(text) : text[i] = needle

\* what a rejected remote call may carry as e.message (EmptyMessage: '' or undefined)
RemoteMessages == {EmptyMessage, <<"Network error">>, <<"404 ", NotFoundText, ".">>}

\* the operation handle as the pipeline reads it: done, error?.message, video uri
Pending == [done |-> FALSE, error |-> Null, uri |-> Null]
Operations ==
    {Pending} \cup [done : {TRUE}, error : {Null, Some(<<"quota exceeded">>)},
                    uri : {Null, Some("https://video/1?alt=media")}]

\* fetch() responses: status and statusText, and the body read from them
Responses == {[status |-> 200, statusText |-> "OK"],
              [status |-> 400, statusText |-> "Bad Request"],
              [status |-> 403, statusText |-> "Forbidden"]}
Bodies == {<<>>, <<"{ code: 400, message: ", InvalidKeyText, ". }">>, <<"Permission denied">>}

ResponseOk(r) == r.status >= 200 /\ r.status <= 299

\* what FileReader.readAsDataURL may leave in reader.result, split at ',':
\* a data URL with a payload, one of an empty file, or no string (read error)
ReaderResults == {Null, Some(<<"data:image/jpeg;base64", "/9j/4AAQ">>),
                  Some(<<"data:image/jpeg;base64", "">>)}

\* a pending call: the await it is suspended at, the status queries it has
\* issued, and whether it has seen its operation done
Call(pc, polls, doneSeen) == [pc |-> pc, polls |-> polls, doneSeen |-> doneSeen]

\* the number of calls of generateVideoFromImage that have not settled
InFlight == BagCardinality(pipelines)

\* the pending calls suspended at pc
At(pc) == {p \in BagToSet(pipelines) : p.pc = pc}

\* pipelines with call p gone, and with p moved on to q
Settled(p) == pipelines (-) SetToBag({p})
Moved(p, q) == (pipelines (-) SetToBag({p})) (+) SetToBag({q})

\* op: the handler or continuation; arg: its input; to: where the pipeline
\* call it ran in went ("wait", "fetch", ..., "settled"), "" outside a call
Event(op, arg, to) == [op |-> op, arg |-> arg, to |-> to]

----------------------------------------------------------------------------
(* Derived render state *)

isGenerating == generationState = "loading" \/ generationState = "polling"
isFormDisabled == isGenerating \/ apiKeySelected # Some(TRUE)
SelectorRendered == apiKeySelected = Some(FALSE)
FormRendered == apiKeySelected = Some(TRUE)

----------------------------------------------------------------------------
Init ==
    /\ imageFile = Null
    /\ script = ""
    /\ generationState = "idle"
    /\ videoUrl = Null
    /\ error = Null
    /\ loadingMessage = ""
    /\ apiKeySelected = Null
    /\ checkPending = TRUE
    /\ selectCalls = 0
    /\ pipelines = EmptyBag
    /\ lastEvent = Event("mount", Null, "")

----------------------------------------------------------------------------
(* Key gate *)

\* checkApiKey without its try/catch: a rejection of hasSelectedApiKey()
\* leaves the state as it was
checkApiKey_Uncaught ==
    /\ checkPending
    /\ \E outcome \in {"true", "false", "throw"} :
        /\ checkPending' = FALSE
        /\ apiKeySelected' = IF outcome = "throw" THEN apiKeySelected
                              ELSE Some(outcome = "true")
        /\ generationState' = IF outcome = "throw" THEN generationState
                               ELSE IF outcome = "true" THEN "idle" ELSE "selecting_key"
        /\ lastEvent' = Event("checkApiKey", outcome, "")
    /\ UNCHANGED <<imageFile, script, videoUrl, error, loadingMessage, selectCalls,
                   pipelines>>

\* checkApiKey, run once by the mount effect: the continuation after
\* await hasSelectedApiKey(), which resolves to a boolean or rejects
checkApiKey ==
    /\ checkPending
    /\ \E outcome \in {"true", "false", "throw"} :
        /\ checkPending' = FALSE
        /\ apiKeySelected' = Some(outcome = "true")
        /\ generationState' = IF outcome = "true" THEN "idle" ELSE "selecting_key"
        /\ lastEvent' = Event("checkApiKey", outcome, "")
    /\ UNCHANGED <<imageFile, script, videoUrl, error, loadingMessage, selectCalls,
                   pipelines>>

\* ApiKeySelector.handleSelectKey up to its await: the button is rendered while
\* apiKeySelected === false and is never disabled
handleSelectKey ==
    /\ SelectorRendered
    /\ selectCalls < MaxSelectCalls
    /\ selectCalls' = selectCalls + 1
    /\ lastEvent' = Event("handleSelectKey", Null, "")
    /\ UNCHANGED <<ui, checkPending, pipelines>>

\* the prop onKeySelected of ApiKeySelector
onKeySelected ==
    /\ apiKeySelected' = Some(TRUE)
    /\ generationState' = "idle"

\* openSelectKey() resolved: handleSelectKey goes on to onKeySelected()
openSelectKeyResolved ==
    /\ selectCalls > 0
    /\ selectCalls' = selectCalls - 1
    /\ onKeySelected
    /\ lastEvent' = Event("openSelectKeyResolved", Null, "")
    /\ UNCHANGED <<imageFile, script, videoUrl, error, loadingMessage, checkPending,
                   pipelines>>

\* handleSelectKey calling onKeySelected() after a rejection too
openSelectKeyRejected_Selects ==
    /\ selectCalls > 0
    /\ selectCalls' = selectCalls - 1
    /\ onKeySelected
    /\ lastEvent' = Event("openSelectKeyRejected", Null, "")
    /\ UNCHANGED <<imageFile, script, videoUrl, error, loadingMessage, checkPending,
                   pipelines>>

\* openSelectKey() rejected: the catch logs and changes nothing
openSelectKeyRejected ==
    /\ selectCalls > 0
    /\ selectCalls' = selectCalls - 1
    /\ lastEvent' = Event("openSelectKeyRejected", Null, "")
    /\ UNCHANGED <<ui, checkPending, pipelines>>

----------------------------------------------------------------------------
(* Form *)

\* onChange of the file input, enabled while the form is rendered and not
\* disabled; files?.[0] is absent when the picker is cancelled
handleImageChange ==
    /\ FormRendered /\ ~isFormDisabled
    /\ \E file \in {Null} \cup {Some(f) : f \in Files} :
        /\ IF file # Null
           THEN imageFile' = file /\ error' = Null
           ELSE UNCHANGED <<imageFile, error>>
        /\ lastEvent' = Event("handleImageChange", file, "")
    /\ UNCHANGED <<script, generationState, videoUrl, loadingMessage, apiKeySelected,
                   checkPending, selectCalls, pipelines>>

\* onChange of the script textarea
setScript ==
    /\ FormRendered /\ ~isFormDisabled
    /\ \E text \in Scripts :
        /\ script' = text
        /\ lastEvent' = Event("setScript", text, "")
    /\ UNCHANGED <<imageFile, generationState, videoUrl, error, loadingMessage,
                   apiKeySelected, checkPending, selectCalls, pipelines>>

\* the guard of handleSubmit without its credential test
SubmitReturnsEarly_NoKeyCheck ==
    imageFile = Null \/ script = ""

\* the guard of handleSubmit without its image and script tests
SubmitReturnsEarly_NoInputCheck ==
    apiKeySelected # Some(TRUE)

\* the guard of handleSubmit
SubmitReturnsEarly ==
    imageFile = Null \/ script = "" \/ apiKeySelected # Some(TRUE)

\* A click on Generate.  The render blocks the click when the form is not
\* rendered or the button is disabled (no image, no script, isGenerating);
\* line 87 blocks the same clicks again except for isGenerating, so a blocked
\* click is a call that returns at line 87 and only isGenerating is left to
\* the render.  A started call runs generateVideoFromImage up to its first
\* await: onProgress("Converting image...") and the FileReader started.
handleSubmit ==
    /\ ~isGenerating
    /\ IF SubmitReturnsEarly
       THEN /\ lastEvent' = Event("handleSubmit", Null, "")
            /\ UNCHANGED <<ui, pipelines>>
       ELSE /\ InFlight < MaxInFlight
            /\ pipelines' = pipelines (+) SetToBag({Call("encode", 0, FALSE)})
            /\ lastEvent' = Event("handleSubmit", Some(generationState), "encode")
            /\ generationState' = "loading"
            /\ error' = Null
            /\ videoUrl' = Null
            /\ loadingMessage' = "Converting image..."
            /\ UNCHANGED <<imageFile, script, apiKeySelected>>
    /\ UNCHANGED <<checkPending, selectCalls>>

\* resetState forgetting setScript('')
resetState_KeepsScript ==
    /\ FormRendered
    /\ \/ generationState = "success" /\ videoUrl # Null
       \/ generationState = "error" /\ error # Null
    /\ imageFile' = Null
    /\ videoUrl' = Null
    /\ error' = Null
    /\ generationState' = IF apiKeySelected = Some(TRUE) THEN "idle" ELSE "selecting_key"
    /\ lastEvent' = Event("resetState", apiKeySelected, "")
    /\ UNCHANGED <<script, loadingMessage, apiKeySelected, checkPending, selectCalls,
                   pipelines>>

\* resetState, on "Create Another Video" (success panel) or "Try Again"
\* (error panel); both panels are inside the form
resetState ==
    /\ FormRendered
    /\ \/ generationState = "success" /\ videoUrl # Null
       \/ generationState = "error" /\ error # Null
    /\ imageFile' = Null
    /\ script' = ""
    /\ videoUrl' = Null
    /\ error' = Null
    /\ generationState' = IF apiKeySelected = Some(TRUE) THEN "idle" ELSE "selecting_key"
    /\ lastEvent' = Event("resetState", apiKeySelected, "")
    /\ UNCHANGED <<loadingMessage, apiKeySelected, checkPending, selectCalls, pipelines>>

----------------------------------------------------------------------------
(* Generation pipeline: generateVideoFromImage inside handleSubmit's try *)

\* handleSubmit's catch: what a rejection with e.message = message sets
CatchError(message) ==
    IF message = API_KEY_ERROR
    THEN [error |-> Some(KeyInvalidMessage), apiKeySelected |-> Some(FALSE),
          generationState |-> "selecting_key"]
    ELSE [error |-> Some(IF message # EmptyMessage THEN message ELSE UnknownMessage),
          apiKeySelected |-> apiKeySelected, generationState |-> "error"]

\* handleSubmit without its finally: a rejection leaves the progress label
Rejects_NoFinally(p, message) ==
    /\ pipelines' = Settled(p)
    /\ error' = CatchError(message).error
    /\ apiKeySelected' = CatchError(message).apiKeySelected
    /\ generationState' = CatchError(message).generationState
    /\ UNCHANGED <<imageFile, script, videoUrl, loadingMessage>>

\* the call p of generateVideoFromImage rejects: catch, then finally
Rejects(p, message) ==
    /\ pipelines' = Settled(p)
    /\ error' = CatchError(message).error
    /\ apiKeySelected' = CatchError(message).apiKeySelected
    /\ generationState' = CatchError(message).generationState
    /\ loadingMessage' = ""
    /\ UNCHANGED <<imageFile, script, videoUrl>>

\* the call p resolves with url: the rest of the try, then finally
Resolves(p, url) ==
    /\ pipelines' = Settled(p)
    /\ videoUrl' = Some(url)
    /\ generationState' = "success"
    /\ loadingMessage' = ""
    /\ UNCHANGED <<imageFile, script, error, apiKeySelected>>

\* the call p goes on to the await at pc, showing the progress label
Awaits(p, pc, doneSeen, progress) ==
    /\ pipelines' = Moved(p, Call(pc, p.polls, doneSeen))
    /\ loadingMessage' = progress
    /\ UNCHANGED <<imageFile, script, generationState, videoUrl, error, apiKeySelected>>

\* the poll loop written as while (operation.done)
LoopContinues_Inverted(operation) == operation.done

\* the poll loop querying again whatever the operation says
LoopContinues_Always(operation) == TRUE

\* the condition of the poll loop
LoopContinues(operation) == ~operation.done

\* the catch around getVideosOperation rethrowing every error as it is
PollFailure_Rethrow(message) == message

\* the catch around getVideosOperation: the message of the error thrown on
PollFailure(message) ==
    IF Includes(message, NotFoundText) THEN API_KEY_ERROR ELSE message

\* a response that is not ok reported by its status alone
DownloadFailure_StatusOnly(statusText, errorText) == DownloadFailed(statusText)

\* a response that is not ok, its body read: the message of the error thrown
DownloadFailure(statusText, errorText) ==
    IF Includes(errorText, InvalidKeyText) THEN API_KEY_ERROR
    ELSE DownloadFailed(statusText)

\* where an operation just received sends the call: back into the loop's
\* wait, on to the download, or out by an error
After(operation) ==
    IF LoopContinues(operation) THEN "wait"
    ELSE IF operation.error # Null \/ operation.uri = Null THEN "settled"
    ELSE "fetch"

\* the pipeline without its test of downloadLink: the download starts with
\* whatever the operation carries
Proceed_NoLinkCheck(p, operation, progress) ==
    IF LoopContinues(operation)
    THEN Awaits(p, "wait", operation.done, progress)
    ELSE IF operation.error # Null
    THEN Rejects(p, GenerationFailed(operation.error[1]))
    ELSE Awaits(p, "fetch", operation.done, "Finalizing video...")

\* the pipeline reading downloadLink before operation.error
Proceed_LinkFirst(p, operation, progress) ==
    IF LoopContinues(operation)
    THEN Awaits(p, "wait", operation.done, progress)
    ELSE IF operation.uri # Null
    THEN Awaits(p, "fetch", operation.done, "Finalizing video...")
    ELSE IF operation.error # Null
    THEN Rejects(p, GenerationFailed(operation.error[1]))
    ELSE Rejects(p, MissingLink)

\* From an operation just received (by generateVideos or getVideosOperation)
\* to the next await: the loop test, the completion check, the result
\* extraction and the start of the download.  progress is the label shown
\* if the loop goes on into its wait.
Proceed(p, operation, progress) ==
    IF LoopContinues(operation)
    THEN Awaits(p, "wait", operation.done, progress)
    ELSE IF operation.error # Null
    THEN Rejects(p, GenerationFailed(operation.error[1]))
    ELSE IF operation.uri = Null
    THEN Rejects(p, MissingLink)
    ELSE Awaits(p, "fetch", operation.done, "Finalizing video...")

\* fileToGenerativePart settled; an empty payload is an error, otherwise
\* generateVideos is called
encodeDone ==
    /\ \E p \in At("encode"), result \in ReaderResults :
        LET data == IF result = Null THEN "" ELSE result[1][2]
        IN  IF data = ""
            THEN /\ Rejects(p, EncodingFailed)
                 /\ lastEvent' = Event("encodeDone", data, "settled")
            ELSE /\ Awaits(p, "submit", FALSE, "Starting video generation...")
                 /\ lastEvent' = Event("encodeDone", data, "submit")
    /\ UNCHANGED <<checkPending, selectCalls>>

\* ai.models.generateVideos resolved
generateVideosReturned ==
    /\ \E p \in At("submit"), operation \in Operations :
        /\ Proceed(p, operation, "Processing your video... this may take a few minutes.")
        /\ lastEvent' = Event("generateVideosReturned", operation, After(operation))
    /\ UNCHANGED <<checkPending, selectCalls>>

\* ai.models.generateVideos rejected: nothing catches it inside the pipeline
generateVideosThrew ==
    /\ \E p \in At("submit"), message \in RemoteMessages :
        /\ Rejects(p, message)
        /\ lastEvent' = Event("generateVideosThrew", message, "settled")
    /\ UNCHANGED <<checkPending, selectCalls>>

\* the loop without its onProgress("Still processing...")
waitElapsed_NoLabel ==
    /\ \E p \in At("wait") :
        /\ pipelines' = Moved(p, Call("poll", p.polls + 1, p.doneSeen))
        /\ lastEvent' = Event("waitElapsed", p.doneSeen, "poll")
    /\ UNCHANGED <<imageFile, script, generationState, videoUrl, error, apiKeySelected,
                   loadingMessage, checkPending, selectCalls>>

\* the 10 s timer fired: progress label, then getVideosOperation is called
waitElapsed ==
    /\ \E p \in At("wait") :
        /\ pipelines' = Moved(p, Call("poll", p.polls + 1, p.doneSeen))
        /\ lastEvent' = Event("waitElapsed", p.doneSeen, "poll")
    /\ loadingMessage' = "Still processing... checking status."
    /\ UNCHANGED <<imageFile, script, generationState, videoUrl, error, apiKeySelected,
                   checkPending, selectCalls>>

\* getVideosOperation resolved; the remote operation is done after at most
\* MaxPolls queries
getVideosOperationReturned ==
    /\ \E p \in At("poll"), operation \in Operations :
        /\ operation.done \/ p.polls < MaxPolls
        /\ Proceed(p, operation, loadingMessage)
        /\ lastEvent' = Event("getVideosOperationReturned", operation, After(operation))
    /\ UNCHANGED <<checkPending, selectCalls>>

\* the catch around getVideosOperation swallowing every other error, so that
\* the loop waits and queries again
getVideosOperationThrew_Retries ==
    /\ \E p \in At("poll"), message \in RemoteMessages :
        IF Includes(message, NotFoundText)
        THEN /\ Rejects(p, API_KEY_ERROR)
             /\ lastEvent' = Event("getVideosOperationThrew", message, "settled")
        ELSE /\ Awaits(p, "wait", p.doneSeen, loadingMessage)
             /\ lastEvent' = Event("getVideosOperationThrew", message, "wait")
    /\ UNCHANGED <<checkPending, selectCalls>>

\* getVideosOperation rejected
getVideosOperationThrew ==
    /\ \E p \in At("poll"), message \in RemoteMessages :
        /\ Rejects(p, PollFailure(message))
        /\ lastEvent' = Event("getVideosOperationThrew", message, "settled")
    /\ UNCHANGED <<checkPending, selectCalls>>

\* the download answered: an ok response's blob becomes an object URL, any
\* other response's text decides the error
downloadAnswered ==
    /\ \E p \in At("fetch"), response \in Responses, body \in Bodies :
        /\ IF ResponseOk(response)
           THEN Resolves(p, "blob:video")
           ELSE Rejects(p, DownloadFailure(response.statusText, body))
        /\ lastEvent' = Event("downloadAnswered",
                              [response |-> response,
                               body |-> IF ResponseOk(response) THEN <<>> ELSE body,
                               apiKeySelected |-> apiKeySelected],
                              "settled")
    /\ UNCHANGED <<checkPending, selectCalls>>

\* fetch, response.text() or response.blob() rejected (network failure)
downloadThrew ==
    /\ \E p \in At("fetch"), message \in RemoteMessages :
        /\ Rejects(p, message)
        /\ lastEvent' = Event("downloadThrew", message, "settled")
    /\ UNCHANGED <<checkPending, selectCalls>>

----------------------------------------------------------------------------
Next ==
    \/ checkApiKey
    \/ handleSelectKey
    \/ openSelectKeyResolved
    \/ openSelectKeyRejected
    \/ handleImageChange
    \/ setScript
    \/ handleSubmit
    \/ resetState
    \/ encodeDone
    \/ generateVideosReturned
    \/ generateVideosThrew
    \/ waitElapsed
    \/ getVideosOperationReturned
    \/ getVideosOperationThrew
    \/ downloadAnswered
    \/ downloadThrew

Spec == Init /\ [][Next]_vars

\* the continuations of the pending calls: the event loop runs each once the
\* promise or timer it waits on has settled, and every remote call and timer
\* is taken to settle (the operation being done after at most MaxPolls queries)
PipelineNext ==
    \/ encodeDone
    \/ generateVideosReturned
    \/ generateVideosThrew
    \/ waitElapsed
    \/ getVideosOperationReturned
    \/ getVideosOperationThrew
    \/ downloadAnswered
    \/ downloadThrew

FairSpec == Spec /\ WF_vars(PipelineNext)

----------------------------------------------------------------------------
(* Properties *)

\* C1: in every reachable state at most one call of generateVideoFromImage
\* is pending (has neither returned nor thrown).
C1_AtMostOneInFlight == InFlight <= 1

\* C2: handleSubmit starts a pipeline only when the credential is present:
\* right after a call of handleSubmit that started generateVideoFromImage,
\* apiKeySelected (which handleSubmit does not write) is true, never null or
\* false.
C2_StartOnlyWithKey ==
    (lastEvent.op = "handleSubmit" /\ lastEvent.to = "encode")
        => apiKeySelected = Some(TRUE)

\* a pipeline has just been started by handleSubmit
C2_Started ==
    /\ lastEvent.op = "handleSubmit" /\ lastEvent.to = "encode"
    /\ At("encode") # {}
    /\ generationState = "loading"

\* C3: a call of handleSubmit made with no image or with an empty script
\* returns without starting the pipeline: no call of generateVideoFromImage
\* is made (so no remote request) and generationState is not 'loading'.
C3_NoStartWithoutInputs ==
    (lastEvent.op = "handleSubmit" /\ (imageFile = Null \/ script = ""))
        => lastEvent.to = "" /\ generationState # "loading"

\* handleSubmit was called with the credential present but an input missing,
\* and returned
C3_Refused ==
    /\ lastEvent.op = "handleSubmit" /\ lastEvent.to = ""
    /\ apiKeySelected = Some(TRUE)
    /\ imageFile = Null \/ script = ""

\* C4: a rejection of getVideosOperation whose message contains "Requested
\* entity was not found" ends the call at once with generationState =
\* 'selecting_key', apiKeySelected = false and the invalid-key message, not
\* in the 'error' state.
C4_NotFoundIsKeyError ==
    (lastEvent.op = "getVideosOperationThrew" /\ Includes(lastEvent.arg, NotFoundText))
        => /\ lastEvent.to = "settled"
           /\ generationState = "selecting_key"
           /\ apiKeySelected = Some(FALSE)
           /\ error = Some(KeyInvalidMessage)

\* a status query has just failed with a "not found" message
C4_NotFoundSeen ==
    /\ lastEvent.op = "getVideosOperationThrew"
    /\ Includes(lastEvent.arg, NotFoundText)
    /\ generationState = "selecting_key"

\* C5: a download response that is not ok and whose body contains "API key
\* not valid" ends the run in 'selecting_key' with apiKeySelected = false,
\* whatever the status; any other response that is not ok ends it in 'error'
\* with "Failed to download video: " followed by the status text, and
\* apiKeySelected as it was.
C5_DownloadFailures ==
    (lastEvent.op = "downloadAnswered" /\ ~ResponseOk(lastEvent.arg.response))
        => IF Includes(lastEvent.arg.body, InvalidKeyText)
           THEN /\ generationState = "selecting_key"
                /\ apiKeySelected = Some(FALSE)
                /\ error = Some(KeyInvalidMessage)
           ELSE /\ generationState = "error"
                /\ error = Some(<<"Failed to download video: ",
                                  lastEvent.arg.response.statusText>>)
                /\ apiKeySelected = lastEvent.arg.apiKeySelected

\* a 403 response carrying the invalid-key text has just been handled
C5_InvalidKeyBody ==
    /\ lastEvent.op = "downloadAnswered"
    /\ lastEvent.arg.response.status = 403
    /\ Includes(lastEvent.arg.body, InvalidKeyText)
    /\ generationState = "selecting_key"

\* C6: videoUrl is non-null only while generationState = 'success'; in
\* particular it is null whenever generationState is 'error' or
\* 'selecting_key'.
C6_VideoOnlyInSuccess == videoUrl # Null => generationState = "success"

\* C7: right after resetState, imageFile, videoUrl and error are null and
\* script is empty, apiKeySelected is what it was before, and
\* generationState is 'idle' if the credential is present and
\* 'selecting_key' otherwise.
C7_ResetClears ==
    lastEvent.op = "resetState"
        => /\ imageFile = Null /\ script = "" /\ videoUrl = Null /\ error = Null
           /\ apiKeySelected = lastEvent.arg
           /\ generationState =
                IF lastEvent.arg = Some(TRUE) THEN "idle" ELSE "selecting_key"

\* resetState has just run
C7_ResetDone == lastEvent.op = "resetState" /\ generationState = "idle"

\* the poll loop of the call that ran last has just been left: an operation
\* was received and the call did not go into the loop's wait, or a status
\* query rejected
C8_LoopLeft ==
    \/ /\ lastEvent.op \in {"generateVideosReturned", "getVideosOperationReturned"}
       /\ lastEvent.to # "wait"
    \/ lastEvent.op = "getVideosOperationThrew"

C8_RaisedMidPoll == lastEvent.op = "getVideosOperationThrew"

C8_Done ==
    /\ lastEvent.op \in {"generateVideosReturned", "getVideosOperationReturned"}
    /\ lastEvent.arg.done

C8_DoneWithError == C8_Done /\ lastEvent.arg.error # Null

C8_DoneWithResult ==
    C8_Done /\ lastEvent.arg.error = Null /\ lastEvent.arg.uri # Null

C8_DoneWithNeither ==
    C8_Done /\ lastEvent.arg.error = Null /\ lastEvent.arg.uri = Null

\* C8 as stated: the poll loop is left in one of three ways only, done with
\* a result, done with an error, or an error raised by a status query.
C8_ThreeWays ==
    C8_LoopLeft => C8_RaisedMidPoll \/ C8_DoneWithResult \/ C8_DoneWithError

\* C8 amended: the poll loop is left in exactly one of four ways: an error
\* raised by a status query; done with an error payload (the run fails with
\* "Video generation failed: ..."); done with a result URI and no error (the
\* download starts); done with neither (the run fails with "Could not
\* retrieve video download link.").  An operation that is not done never
\* leaves the loop.
C8_FourWays ==
    /\ C8_LoopLeft =>
        /\ C8_RaisedMidPoll \/ C8_Done
        /\ ~(C8_RaisedMidPoll /\ C8_Done)
        /\ C8_DoneWithError =>
              /\ lastEvent.to = "settled"
              /\ generationState = "error"
              /\ error = Some(GenerationFailed(lastEvent.arg.error[1]))
        /\ C8_DoneWithResult => lastEvent.to = "fetch"
        /\ C8_DoneWithNeither =>
              /\ lastEvent.to = "settled"
              /\ generationState = "error"
              /\ error = Some(MissingLink)
    /\ C8_Done => C8_LoopLeft

\* a status query has just returned an operation that is done and carries
\* neither an error nor a URI
C8_DoneEmpty ==
    lastEvent.op = "getVideosOperationReturned" /\ C8_DoneWithNeither /\ C8_LoopLeft

\* C9: a call that has seen its operation done is never again in the loop's
\* wait or in a status query; every status query is issued by a call that has
\* not seen its operation done; and when generateVideos itself returns a done
\* operation the call goes straight on (to the download or to an error)
\* without entering the wait.
C9_NeverRepolled ==
    /\ \A p \in BagToSet(pipelines) : p.doneSeen => p.pc \notin {"wait", "poll"}
    /\ lastEvent.op = "waitElapsed" => lastEvent.arg = FALSE
    /\ (lastEvent.op = "generateVideosReturned" /\ lastEvent.arg.done)
          => lastEvent.to \in {"fetch", "settled"}
    /\ \A p \in At("fetch") : p.doneSeen

\* a call is downloading after seeing its operation done on a status query
C9_DoneAfterPoll == \E p \in At("fetch") : p.doneSeen /\ p.polls >= 1

\* C10: generationState is 'polling' while a call is in the poll loop (in its
\* wait or in a status query).
C10_PollingWhileWaiting ==
    (At("wait") \cup At("poll") # {}) => generationState = "polling"

\* the operation just received is done and carries neither an error payload
\* nor a result URI
C11_DoneEmpty(e) ==
    /\ e.op \in {"generateVideosReturned", "getVideosOperationReturned"}
    /\ e.arg.done /\ e.arg.error = Null /\ e.arg.uri = Null

\* C11: a step that receives a done operation with no error payload and no
\* result URI settles the call with generationState = 'error' and the message
\* "Could not retrieve video download link."; apiKeySelected is not written
\* and no download is started (no call is left waiting on fetch by the step).
C11_MissingResult ==
    [][C11_DoneEmpty(lastEvent') =>
          /\ generationState' = "error"
          /\ error' = Some(MissingLink)
          /\ apiKeySelected' = apiKeySelected
          /\ lastEvent'.to = "settled"
          /\ \A p \in At("fetch")' : CopiesIn(p, pipelines') <= CopiesIn(p, pipelines)
          /\ InFlight' <= InFlight]_vars

\* a status query has just returned such an operation, the credential present
C11_MissingSeen ==
    /\ C11_DoneEmpty(lastEvent)
    /\ lastEvent.op = "getVideosOperationReturned"
    /\ generationState = "error" /\ error = Some(MissingLink)
    /\ apiKeySelected = Some(TRUE)

\* C12: once checkApiKey has completed apiKeySelected is never null; right
\* after it, apiKeySelected = true and generationState = 'idle' if
\* hasSelectedApiKey returned true, and apiKeySelected = false and
\* generationState = 'selecting_key' if it returned false or threw (never
\* 'error', and no error message).
C12_CheckFailsSoft ==
    /\ ~checkPending => apiKeySelected # Null
    /\ checkPending => apiKeySelected = Null
    /\ lastEvent.op = "checkApiKey" =>
          /\ error = Null
          /\ IF lastEvent.arg = "true"
             THEN apiKeySelected = Some(TRUE) /\ generationState = "idle"
             ELSE apiKeySelected = Some(FALSE) /\ generationState = "selecting_key"

\* hasSelectedApiKey() has just thrown
C12_CheckThrew ==
    /\ lastEvent = Event("checkApiKey", "throw", "")
    /\ apiKeySelected = Some(FALSE)
    /\ generationState = "selecting_key"

\* C13: a step in which openSelectKey() resolves leaves apiKeySelected = true
\* and generationState = 'idle'; a step in which it rejects leaves both as
\* they were; and a new openSelectKey() call is made only by a click on
\* "Select API Key" (nothing retries).
C13_SelectCredential ==
    [][/\ lastEvent'.op = "openSelectKeyResolved" =>
            apiKeySelected' = Some(TRUE) /\ generationState' = "idle"
       /\ lastEvent'.op = "openSelectKeyRejected" =>
            /\ apiKeySelected' = apiKeySelected
            /\ generationState' = generationState
            /\ selectCalls' <= selectCalls
       /\ selectCalls' > selectCalls => lastEvent'.op = "handleSelectKey"]_vars

\* openSelectKey() has just rejected and the selector is still shown
C13_SelectFailed ==
    /\ lastEvent.op = "openSelectKeyRejected"
    /\ apiKeySelected = Some(FALSE)
    /\ generationState = "selecting_key"
    /\ selectCalls = 0

\* C14: each step of a run shows the label of the stage it starts:
\* "Converting image..." when handleSubmit starts the call, "Starting video
\* generation..." when the encoding is done and generateVideos is called,
\* "Processing your video..." when generateVideos has returned and the loop
\* is entered, "Still processing..." when a wait is over and a status query
\* is made (and a call is in a status query only after such a step),
\* "Finalizing video..." when the operation is done and the download starts;
\* and the step in which the download succeeds leaves generationState =
\* 'success', videoUrl non-null and loadingMessage empty.
C14_ProgressLabels ==
    /\ (lastEvent.op = "handleSubmit" /\ lastEvent.to = "encode")
          => loadingMessage = "Converting image..."
    /\ (lastEvent.op = "encodeDone" /\ lastEvent.to = "submit")
          => loadingMessage = "Starting video generation..."
    /\ (lastEvent.op = "generateVideosReturned" /\ lastEvent.to = "wait")
          => loadingMessage = "Processing your video... this may take a few minutes."
    /\ lastEvent.op = "waitElapsed"
          => loadingMessage = "Still processing... checking status."
    /\ (lastEvent.op \in {"generateVideosReturned", "getVideosOperationReturned"}
          /\ lastEvent.to = "fetch")
          => loadingMessage = "Finalizing video..."
    /\ (lastEvent.op = "downloadAnswered" /\ ResponseOk(lastEvent.arg.response))
          => generationState = "success" /\ videoUrl # Null /\ loadingMessage = ""
    /\ \A p \in At("poll") : p.polls >= 1
    /\ \A p \in At("encode") \cup At("submit") : p.polls = 0
    /\ lastEvent.op = "encodeDone" => lastEvent.to \in {"submit", "settled"}
    /\ lastEvent.op = "waitElapsed" => lastEvent.to = "poll"
    /\ lastEvent.op = "downloadAnswered" => lastEvent.to = "settled"

\* a run has just succeeded
C14_Succeeded ==
    /\ lastEvent.op = "downloadAnswered" /\ ResponseOk(lastEvent.arg.response)
    /\ generationState = "success" /\ videoUrl # Null /\ loadingMessage = ""
    /\ InFlight = 0

\* the step that ran last was a failing step of a run
C15_Failing(e) ==
    \/ e.op = "encodeDone" /\ e.arg = ""
    \/ e.op \in {"generateVideosThrew", "getVideosOperationThrew", "downloadThrew"}
    \/ /\ e.op \in {"generateVideosReturned", "getVideosOperationReturned"}
       /\ e.arg.done /\ (e.arg.error # Null \/ e.arg.uri = Null)
    \/ e.op = "downloadAnswered" /\ ~ResponseOk(e.arg.response)

\* C15: a failing step of a run (empty encoding, rejected generateVideos,
\* rejected status query, done operation with an error payload or without a
\* URI, download failure) settles the call: it is pending no more, so it makes
\* no further remote call, and the state is 'error' or 'selecting_key'.  A
\* rejected status query whose message lacks "Requested entity was not found"
\* leaves 'error' with that message (the fallback text if it is empty) and
\* does not write apiKeySelected.
C15_NoRetry ==
    [][C15_Failing(lastEvent') =>
          /\ \E p \in BagToSet(pipelines) : pipelines' = Settled(p)
          /\ lastEvent'.to = "settled"
          /\ generationState' \in {"error", "selecting_key"}
          /\ (lastEvent'.op = "getVideosOperationThrew"
                /\ ~Includes(lastEvent'.arg, NotFoundText))
              => /\ generationState' = "error"
                 /\ error' = Some(IF lastEvent'.arg = EmptyMessage
                                  THEN UnknownMessage ELSE lastEvent'.arg)
                 /\ apiKeySelected' = apiKeySelected]_vars

\* a status query has just failed with another message, the only run pending
C15_OtherPollFailure ==
    /\ lastEvent = Event("getVideosOperationThrew", <<"Network error">>, "settled")
    /\ generationState = "error" /\ error = Some(<<"Network error">>)
    /\ apiKeySelected = Some(TRUE)
    /\ InFlight = 0

\* C16: a done operation that carries an error payload ends the run in
\* 'error' with "Video generation failed: " and the remote message, whether
\* or not it also carries a result URI, and no download is started.
C16_ErrorBeforeResult ==
    (/\ lastEvent.op \in {"generateVideosReturned", "getVideosOperationReturned"}
     /\ lastEvent.arg.done /\ lastEvent.arg.error # Null)
        => /\ lastEvent.to = "settled"
           /\ generationState = "error"
           /\ error = Some(<<"Video generation failed: ">> \o lastEvent.arg.error[1])

\* a done operation carrying both an error payload and a URI was received
C16_ErrorAndUri ==
    /\ lastEvent.op \in {"generateVideosReturned", "getVideosOperationReturned"}
    /\ lastEvent.arg.done /\ lastEvent.arg.error # Null /\ lastEvent.arg.uri # Null
    /\ generationState = "error"
    /\ InFlight = 0

\* C17 as stated: 'loading' is entered only from 'idle', and 'success' and
\* 'error' are left only by resetState, to 'idle' or 'selecting_key'.
C17_OnlyFromIdle ==
    [][/\ (generationState' = "loading" /\ generationState # "loading")
             => generationState = "idle"
       /\ (generationState \in {"success", "error"}
             /\ generationState' # generationState)
             => /\ lastEvent'.op = "resetState"
                /\ generationState' \in {"idle", "selecting_key"}]_vars

\* C17, amended: 'loading' is entered only by handleSubmit, with the
\* credential present and both inputs, from 'idle', 'success' or 'error'
\* and never from 'selecting_key'; 'success' and 'error' are left only by
\* resetState (to 'idle', or 'selecting_key' without the credential), by
\* handleSubmit (directly to 'loading'), or by the completion of a call that
\* was still pending (a selector call to 'idle', a run to its own outcome).
C17_Transitions ==
    [][/\ (generationState' = "loading" /\ generationState # "loading")
             => /\ lastEvent' = Event("handleSubmit", Some(generationState), "encode")
                /\ generationState \in {"idle", "success", "error"}
                /\ apiKeySelected = Some(TRUE)
                /\ imageFile # Null /\ script # ""
       /\ (generationState \in {"success", "error"}
             /\ generationState' # generationState)
             => \/ /\ lastEvent'.op = "resetState"
                   /\ generationState' = IF apiKeySelected = Some(TRUE)
                                         THEN "idle" ELSE "selecting_key"
                \/ /\ lastEvent'.op = "handleSubmit"
                   /\ generationState' = "loading"
                \/ /\ lastEvent'.op = "openSelectKeyResolved"
                   /\ selectCalls > 0
                   /\ generationState' = "idle"
                \/ /\ lastEvent'.to = "settled"
                   /\ InFlight > 0]_vars

\* a run was started from 'success' or 'error', no other run pending
C17_Resubmitted ==
    /\ lastEvent.op = "handleSubmit" /\ lastEvent.to = "encode"
    /\ lastEvent.arg \in {Some("success"), Some("error")}
    /\ generationState = "loading"
    /\ InFlight = 1

C19_ErrorHasMessage ==
    generationState = "error" => (error # Null /\ error[1] # EmptyMessage)

\* C20: once checkApiKey has completed, apiKeySelected = false exactly when
\* generationState = 'selecting_key'.
C20_FlagAgreesWithState ==
    ~checkPending =>
        (apiKeySelected = Some(FALSE) <=> generationState = "selecting_key")

====
